---- MODULE Spec2Model ----
(***************************************************************************)
(* The in-memory retrieval store of the RAG chatbot                        *)
(* (src/app/rag_fallback.py, SimpleRAGManager) together with the entry     *)
(* points that feed it (src/app/rag.py, src/app/tools.py, the dashboards)  *)
(* and the agent node of the command-line chat (src/app/agent.py,          *)
(* src/cli.py).                                                            *)
(*                                                                         *)
(* Conventions                                                             *)
(*  - Python lists are TLA+ sequences; a Python index i is the TLA+        *)
(*    position i+1 (top_indices holds positions).                          *)
(*  - An embedding is a pair of integers: the components in tenths, so     *)
(*    <<9, 1>> is [0.9, 0.1].  Cosine similarity does not depend on the    *)
(*    scale.                                                               *)
(*  - A cosine score is kept exact as [num, den2], standing for            *)
(*    num / sqrt(den2); it is NaN when den2 = 0 (numpy divides 0 by 0.0    *)
(*    and yields nan with a warning, no exception).  Over the vectors      *)
(*    used here the float64 comparisons agree with the exact ones.         *)
(*  - A document's page_content is an opaque text known by its source and  *)
(*    its length: one word without separators or white space, unless the   *)
(*    document has a words field, which gives the lengths of its words,    *)
(*    separated by single spaces, and possibly a trailing field, the       *)
(*    number of newline characters the text ends with (counted in its      *)
(*    length).  A chunk's page_content is the slice [lo, hi) of it.        *)
(***************************************************************************)
EXTENDS Integers, Sequences, FiniteSets, TLC

VARIABLES
    documents,            \* SimpleRAGManager.documents: the stored chunks
    document_embeddings,  \* SimpleRAGManager.document_embeddings
    rawdata_folder,       \* the files present in the rawdata folder
    last,                 \* the call that was completed last, with its outcome
    rag_manager,          \* the global of app.rag: 0 is None, n is the n-th
                          \* RAGManager constructed in this process
    ingesting,            \* the process_and_store_documents call that has
                          \* assigned self.documents and awaits embed_documents
                          \* (<<>> when there is none)
    searching,            \* the search_documents call that has built its
                          \* top_indices and not yet read self.documents
                          \* (<<>> when there is none)
    messages,             \* the message list of the command-line chat:
                          \* state["messages"] between two agent turns, the
                          \* list agent_node works on during a turn
    turn                  \* the agent turn in progress, or else the one
                          \* completed last

vars == <<documents, document_embeddings, rawdata_folder, last, rag_manager,
         ingesting, searching, messages, turn>>

\* the variables of the chat
chat == <<messages, turn>>

(***************************************************************************)
(* Bounds of the model                                                     *)
(***************************************************************************)
MaxFiles == 2     \* files the rawdata folder may hold
MaxK == 2         \* largest k a search is called with
MaxWords == 3     \* a text with separators has up to 2 * MaxWords words
MaxTurns == 2     \* agent turns of one chat

(***************************************************************************)
(* Program constants                                                       *)
(***************************************************************************)
chunk_size == 1000
chunk_overlap == 200

\* characters of a chunk shown in the agent's context and in the answer of
\* the search_knowledge_base tool
agent_max_chars == 500
tool_max_chars == 300

\* the k of the agent node's search
agent_k == 3

(***************************************************************************)
(* The environment: files, web pages, the embedding collaborator           *)
(***************************************************************************)
Min(a, b) == IF a <= b THEN a ELSE b
Max(a, b) == IF a >= b THEN a ELSE b

\* _load_text_file: one Document per readable file
TextFiles ==
    { [source |-> "a.txt", type |-> "text_file", length |-> 1500],
      [source |-> "b.txt", type |-> "text_file", length |-> 500],
      [source |-> "z.txt", type |-> "text_file", length |-> 300] }

\* text files with separators: u words of one length followed by v words of
\* another
WordLengths == {199, 299, 450, 1200}

Repeat(x, n) == [i \in 1 .. n |-> x]

Texts ==
    { Repeat(w1, u) \o Repeat(w2, v) :
        w1 \in WordLengths, w2 \in WordLengths, u \in 1 .. MaxWords, v \in 0 .. MaxWords }

RECURSIVE Sum(_)
Sum(lens) == IF lens = <<>> THEN 0 ELSE Head(lens) + Sum(Tail(lens))

TextDocument(words) ==
    [source |-> "text.txt", type |-> "text_file",
     length |-> Sum(words) + Len(words) - 1, words |-> words]

\* a text file whose text ends with a newline character
TextDocumentWithNewline(words) ==
    [source |-> "text.txt", type |-> "text_file",
     length |-> Sum(words) + Len(words), words |-> words, trailing |-> 1]

\* the text of an empty file: one word of no character
EmptyText == << 0 >>

\* a one-chunk file that may stand beside it in the folder
NoteDocument ==
    [source |-> "note.txt", type |-> "text_file", length |-> 199, words |-> <<99, 99>>]

\* RAGManager.scrape_website: one Document per page that could be fetched;
\* a page without text gives a Document with empty page_content
WebPages ==
    { [source |-> "https://w", type |-> "website", length |-> 400],
      [source |-> "https://empty", type |-> "website", length |-> 0] }

\* the vector the embedding service returns for a chunk text
EmbedText(page_content) ==
    CASE page_content.of = "a.txt" /\ page_content.lo = 0 -> <<10, 0>>
      [] page_content.of = "a.txt" -> <<0, 10>>
      [] page_content.of = "b.txt" -> <<9, 1>>
      [] page_content.of = "z.txt" -> <<0, 0>>
      [] OTHER -> <<0, 10>>

\* the query texts and the vector the embedding service returns for each
Queries == {"east", "diagonal", "west", "void"}

EmbedQueryText(query) ==
    CASE query = "east" -> <<10, 0>>
      [] query = "diagonal" -> <<10, 10>>
      [] query = "west" -> <<-10, 0>>
      [] OTHER -> <<0, 0>>

\* what a call of embed_documents may do: answer as documented, raise, or
\* answer with one vector too few
EmbedOutcomes == {"ok", "raise", "short"}
QueryOutcomes == {"ok", "raise"}

Ks == {-1} \cup (0 .. MaxK)

(***************************************************************************)
(* Pure helpers                                                            *)
(***************************************************************************)
SeqMap(Op(_), s) == [i \in 1 .. Len(s) |-> Op(s[i])]

RECURSIVE Flatten(_)
Flatten(ss) == IF ss = <<>> THEN <<>> ELSE Head(ss) \o Flatten(Tail(ss))

\* Python's s[:k]
SliceTo(s, k) ==
    IF k >= 0 THEN SubSeq(s, 1, Min(k, Len(s)))
    ELSE SubSeq(s, 1, Max(Len(s) + k, 0))

\* all the orders in which the files of a folder may be listed (rglob)
RECURSIVE Listings(_)
Listings(files) ==
    IF files = {} THEN {<<>>}
    ELSE UNION { { <<f>> \o rest : rest \in Listings(files \ {f}) } : f \in files }

(***************************************************************************)
(* Chunking: RecursiveCharacterTextSplitter(chunk_size, chunk_overlap)     *)
(***************************************************************************)
\* the windows cut out of a text of the given length, from position lo on:
\* a window is closed when it holds chunk_size characters and another one
\* arrives; the next window starts with its last chunk_overlap characters
RECURSIVE Windows(_, _)
Windows(lo, length) ==
    IF lo + chunk_size >= length
    THEN << [lo |-> lo, hi |-> length] >>
    ELSE << [lo |-> lo, hi |-> lo + chunk_size] >>
         \o Windows(lo + chunk_size - chunk_overlap, length)

\* split_text as it would be if an empty chunk was kept
split_text_keeping_empty(length) == Windows(0, length)

\* split_text: an empty text gives no chunk
split_text(length) == IF length = 0 THEN <<>> ELSE Windows(0, length)

\* A text with separators is a sequence of words (their lengths), two words
\* being separated by one space.  re.split keeps the separators: the pieces
\* are the first word and, for every other word, the space with the word
\* after it; sep tells whether a piece starts with the space.
RECURSIVE Pieces(_, _, _)
Pieces(words, i, lo) ==
    IF i > Len(words) THEN <<>>
    ELSE LET len == words[i] + (IF i > 1 THEN 1 ELSE 0)
         IN  << [lo |-> lo, hi |-> lo + len, sep |-> i > 1] >>
             \o Pieces(words, i + 1, lo + len)

\* _join_docs: the pieces first .. to joined, white space stripped
JoinDocs(pieces, first, to) ==
    [lo |-> pieces[first].lo + (IF pieces[first].sep THEN 1 ELSE 0),
     hi |-> pieces[to].hi]

\* the length of current_doc when it holds the pieces first .. i-1
Total(pieces, first, i) ==
    IF first >= i THEN 0 ELSE pieces[i - 1].hi - pieces[first].lo

\* KeepFrom as it would be if pieces left current_doc only to make room for
\* the piece i
KeepFrom_for_room_only(pieces, first, i) ==
    LET len == pieces[i].hi - pieces[i].lo
        Drop(total) == total + len > chunk_size /\ total > 0
    IN  CHOOSE f \in first .. i :
            /\ ~Drop(Total(pieces, f, i))
            /\ \A g \in first .. (f - 1) : Drop(Total(pieces, g, i))

\* the while loop of _merge_splits: pieces leave current_doc from the front
\* while it is longer than chunk_overlap or has no room for the piece i
KeepFrom(pieces, first, i) ==
    LET len == pieces[i].hi - pieces[i].lo
        Drop(total) == \/ total > chunk_overlap
                       \/ (total + len > chunk_size /\ total > 0)
    IN  CHOOSE f \in first .. i :
            /\ ~Drop(Total(pieces, f, i))
            /\ \A g \in first .. (f - 1) : Drop(Total(pieces, g, i))

\* _merge_splits from the piece i on, current_doc holding the pieces
\* first .. i-1
RECURSIVE merge_splits(_, _, _)
merge_splits(pieces, first, i) ==
    IF i > Len(pieces)
    THEN IF first < i THEN << JoinDocs(pieces, first, i - 1) >> ELSE <<>>
    ELSE IF first < i /\ Total(pieces, first, i) + (pieces[i].hi - pieces[i].lo) > chunk_size
    THEN << JoinDocs(pieces, first, i - 1) >>
         \o merge_splits(pieces, KeepFrom(pieces, first, i), i + 1)
    ELSE merge_splits(pieces, first, i + 1)

\* SplitLongPiece as it would be if a piece too long for a chunk was kept
\* whole
SplitLongPiece_whole(piece) ==
    << [lo |-> piece.lo + (IF piece.sep THEN 1 ELSE 0), hi |-> piece.hi] >>

\* a piece of chunk_size characters or more is split character by
\* character: windows, the first of them stripped of the space
SplitLongPiece(piece) ==
    LET windows == Windows(piece.lo, piece.hi)
    IN  [n \in 1 .. Len(windows) |->
            IF n = 1 /\ piece.sep
            THEN [windows[n] EXCEPT !.lo = piece.lo + 1]
            ELSE windows[n]]

\* the loop of _split_text over the pieces, good holding the _good_splits
\* gathered so far
RECURSIVE split_pieces(_, _)
split_pieces(pieces, good) ==
    LET merged == IF good = <<>> THEN <<>> ELSE merge_splits(good, 1, 1)
    IN  IF pieces = <<>> THEN merged
        ELSE IF Head(pieces).hi - Head(pieces).lo < chunk_size
        THEN split_pieces(Tail(pieces), Append(good, Head(pieces)))
        ELSE merged \o SplitLongPiece(Head(pieces)) \o split_pieces(Tail(pieces), <<>>)

\* the newline characters a document's text ends with
Trailing(doc) == IF "trailing" \in DOMAIN doc THEN doc.trailing ELSE 0

\* the words of a document: a document known by its length only is one word
WordsOf(doc) == IF "words" \in DOMAIN doc THEN doc.words ELSE << doc.length >>

\* _split_text: a text without a separator is split character by character,
\* another one at its spaces
split_words(words) ==
    IF Len(words) = 1 THEN split_text(words[1])
    ELSE split_pieces(Pieces(words, 1, 0), <<>>)

\* create_documents: every chunk carries its document's metadata.  A text
\* that ends with newline characters is cut there first: the text before
\* them is split as it is without them, and the newline characters are a
\* piece that _join_docs strips to the empty string and drops.
ChunksOf(doc) ==
    SeqMap(LAMBDA w : [page_content |-> [of |-> doc.source, lo |-> w.lo, hi |-> w.hi],
                       metadata |-> [source |-> doc.source, type |-> doc.type]],
           split_words(WordsOf(doc)))

\* split_documents: document order, then chunk order within a document
split_documents(docs) == Flatten(SeqMap(ChunksOf, docs))

(***************************************************************************)
(* The embedding collaborator                                              *)
(***************************************************************************)
\* embed_documents(texts) when it does not raise
embed_documents(texts, outcome) ==
    LET vectors == SeqMap(EmbedText, texts)
    IN  IF outcome = "short" THEN SubSeq(vectors, 1, Len(vectors) - 1) ELSE vectors

(***************************************************************************)
(* Scoring                                                                 *)
(***************************************************************************)
Dot(vec1, vec2) == vec1[1] * vec2[1] + vec1[2] * vec2[2]

\* _cosine_similarity: np.dot(vec1, vec2) / (norm(vec1) * norm(vec2)),
\* kept as num / sqrt(den2)
cosine_similarity(vec1, vec2) ==
    [num |-> Dot(vec1, vec2), den2 |-> Dot(vec1, vec1) * Dot(vec2, vec2)]

IsNaN(x) == x.den2 = 0

Sign(n) == IF n > 0 THEN 1 ELSE IF n < 0 THEN -1 ELSE 0

\* float comparisons: every comparison with NaN is false
ScoreLT(x, y) ==
    /\ ~IsNaN(x)
    /\ ~IsNaN(y)
    /\ Sign(x.num) * x.num * x.num * y.den2 < Sign(y.num) * y.num * y.num * x.den2

ScoreEQ(x, y) ==
    /\ ~IsNaN(x)
    /\ ~IsNaN(y)
    /\ Sign(x.num) * x.num * x.num * y.den2 = Sign(y.num) * y.num * y.num * x.den2

ScoreGE(x, y) == ScoreLT(y, x) \/ ScoreEQ(x, y)

(***************************************************************************)
(* similarities.sort(reverse=True) on (similarity, i) tuples               *)
(***************************************************************************)
\* tuple comparison: the first components decide unless they are equal
TupleLT(x, y) == IF ScoreEQ(x[1], y[1]) THEN x[2] < y[2] ELSE ScoreLT(x[1], y[1])

Reverse(s) == [i \in 1 .. Len(s) |-> s[Len(s) + 1 - i]]

\* count_run: the length of the run the list starts with, and whether the
\* run is strictly descending
RunDescending(a) == TupleLT(a[2], a[1])

RunLength(a) ==
    CHOOSE n \in 2 .. Len(a) :
        /\ \A j \in 3 .. n : TupleLT(a[j], a[j - 1]) = RunDescending(a)
        /\ n < Len(a) => TupleLT(a[n + 1], a[n]) /= RunDescending(a)

\* binarysort: where the pivot goes among a[l .. r-1]
RECURSIVE BinarySearch(_, _, _, _)
BinarySearch(a, pivot, l, r) ==
    IF l >= r THEN l
    ELSE LET p == l + ((r - l) \div 2)
         IN  IF TupleLT(pivot, a[p])
             THEN BinarySearch(a, pivot, l, p)
             ELSE BinarySearch(a, pivot, p + 1, r)

RECURSIVE BinarySort(_, _)
BinarySort(a, start) ==
    IF start > Len(a) THEN a
    ELSE LET l == BinarySearch(a, a[start], 1, start)
         IN  BinarySort(SubSeq(a, 1, l - 1) \o <<a[start]>> \o SubSeq(a, l, start - 1)
                            \o SubSeq(a, start + 1, Len(a)),
                        start + 1)

\* list.sort for fewer than 64 elements: one run, extended by binary insertion
ListSort(a) ==
    IF Len(a) < 2 THEN a
    ELSE LET n == RunLength(a)
             b == IF RunDescending(a)
                  THEN Reverse(SubSeq(a, 1, n)) \o SubSeq(a, n + 1, Len(a))
                  ELSE a
         IN  BinarySort(b, n + 1)

\* reverse=True: reverse, sort ascending, reverse
SortReverse(a) == Reverse(ListSort(Reverse(a)))

(***************************************************************************)
(* SimpleRAGManager                                                        *)
(***************************************************************************)
PageContents(chunks) == SeqMap(LAMBDA chunk : chunk.page_content, chunks)

\* process_and_store_documents as it would be if it added the new chunks and
\* vectors to the stored ones instead of assigning them
process_and_store_documents_appending(docs, outcome) ==
    IF docs = <<>>
    THEN [documents |-> documents,
          document_embeddings |-> document_embeddings,
          success |-> FALSE,
          signal |-> "none"]
    ELSE LET chunks == split_documents(docs)
         IN  IF outcome = "raise"
             THEN [documents |-> documents \o chunks,
                   document_embeddings |-> document_embeddings,
                   success |-> FALSE,
                   signal |-> "none"]
             ELSE [documents |-> documents \o chunks,
                   document_embeddings |-> document_embeddings
                        \o embed_documents(PageContents(chunks), outcome),
                   success |-> TRUE,
                   signal |-> "none"]

\* process_and_store_documents(documents): the store it leaves and the
\* boolean it returns; outcome is what embed_documents does when called (an
\* exception raised in the try block ends in except Exception: return False)
process_and_store_documents(docs, outcome) ==
    IF docs = <<>>
    THEN [documents |-> documents,
          document_embeddings |-> document_embeddings,
          success |-> FALSE,
          signal |-> "none"]
    ELSE LET chunks == split_documents(docs)
         IN  IF outcome = "raise"
             THEN [documents |-> chunks,
                   document_embeddings |-> document_embeddings,
                   success |-> FALSE,
                   signal |-> "none"]
             ELSE [documents |-> chunks,
                   document_embeddings |-> embed_documents(PageContents(chunks), outcome),
                   success |-> TRUE,
                   signal |-> "none"]

\* return []: nothing is raised to the caller
NoResults == [results |-> <<>>, top_indices |-> <<>>, signal |-> "none"]

\* the (similarity, i) tuples of the stored embeddings, sorted
Similarities(query_embedding) ==
    SortReverse([i \in 1 .. Len(document_embeddings) |->
                    <<cosine_similarity(query_embedding, document_embeddings[i]), i>>])

\* lines 138-145: the positions of the k best-scoring stored embeddings
TopIndices(query, k) ==
    SeqMap(LAMBDA t : t[2], SliceTo(Similarities(EmbedQueryText(query)), k))

\* line 147: the chunks at these positions, or IndexError when a position
\* is beyond the stored chunks
FetchResults(top_indices) ==
    IF \E j \in 1 .. Len(top_indices) : top_indices[j] > Len(documents)
    THEN [NoResults EXCEPT !.signal = "IndexError"]
    ELSE [results |-> SeqMap(LAMBDA idx : documents[idx], top_indices),
          top_indices |-> top_indices,
          signal |-> "none"]

\* the try block of search_documents: the list it builds and the positions
\* it took the list from, or the exception raised inside it; outcome is what
\* embed_query does when called
search_documents_try(query, k, outcome) ==
    IF outcome = "raise"
    THEN [NoResults EXCEPT !.signal = "EmbeddingError"]
    ELSE FetchResults(TopIndices(query, k))

\* search_documents as it would be without its except clause
search_documents_unguarded(query, k, outcome) ==
    IF documents = <<>> \/ document_embeddings = <<>>
    THEN NoResults
    ELSE search_documents_try(query, k, outcome)

\* except Exception: return []
Caught(r) == IF r.signal /= "none" THEN NoResults ELSE r

\* search_documents(query, k): the guard for an empty store, then the try
\* block; except Exception: return []
search_documents(query, k, outcome) ==
    IF documents = <<>> \/ document_embeddings = <<>>
    THEN NoResults
    ELSE Caught(search_documents_try(query, k, outcome))

\* get_document_count
get_document_count == Len(documents)

(***************************************************************************)
(* The context built from the chunks a search returned                     *)
(***************************************************************************)
ContentLength(page_content) == page_content.hi - page_content.lo

\* page_content[:n]
Truncate(page_content, n) ==
    [page_content EXCEPT !.hi = Min(page_content.hi, page_content.lo + n)]

\* agent_node: "Document {i+1} (Source: {source}):\n{page_content[:500]}..."
\* for i, doc in enumerate(relevant_docs); marker tells whether "..." follows
\* the content
agent_context(relevant_docs) ==
    [n \in 1 .. Len(relevant_docs) |->
        [index |-> (n - 1) + 1,
         source |-> relevant_docs[n].metadata.source,
         content |-> Truncate(relevant_docs[n].page_content, agent_max_chars),
         marker |-> TRUE]]

\* search_knowledge_base: "Document {i} (Source: {source}):\n{content}" for
\* i, doc in enumerate(results, 1), content being page_content[:300] + "..."
\* if the page_content is longer than 300 and the page_content otherwise
search_knowledge_base_response(results) ==
    [n \in 1 .. Len(results) |->
        LET longer == ContentLength(results[n].page_content) > tool_max_chars
        IN  [index |-> n,
             source |-> results[n].metadata.source,
             content |-> IF longer
                         THEN Truncate(results[n].page_content, tool_max_chars)
                         ELSE results[n].page_content,
             marker |-> longer]]

(***************************************************************************)
(* The record of the last call                                             *)
(***************************************************************************)
\* signal is what a call tells its caller apart from its return value (the
\* exception it lets through, "none" when it returns); count is
\* get_document_count() at the end of the call; prev_ingested and prev_count
\* tell an ingestion what it follows: whether the call before it was a
\* successful ingestion, and how many chunks were stored (a clear records
\* prev_count too); overlapped tells of a search whether a count was made
\* while it was in progress
NoCall ==
    [op |-> "none", entry |-> "none", docs |-> <<>>, embed |-> "none",
     query |-> "none", k |-> 0, success |-> FALSE, results |-> <<>>,
     top_indices |-> <<>>, count |-> 0, signal |-> "none",
     prev_ingested |-> FALSE, prev_count |-> 0, overlapped |-> FALSE]

IngestOps == {"load", "upload", "scrape"}

ScrapeEntries == {"tool", "dashboard"}

\* the entry points that reach clear_documents through
\* RAGManager.clear_vectorstore: the clear_knowledge_base tool and the
\* enhanced dashboard's "Clear All Documents"
ClearEntries == {"tool", "enhanced_dashboard"}

(***************************************************************************)
(* The messages of a chat                                                  *)
(***************************************************************************)
\* A message is known by its class (type) and by what the agent node reads
\* or writes of it.  The content of a SystemMessage is known by the number
\* of documents and the context block it was formatted with (the default
\* prompt has neither); id tells the AIMessage objects apart: the turn and
\* the model invocation that returned it.
NoMessage ==
    [type |-> "none", content |-> "", document_count |-> 0, context |-> <<>>,
     tool_calls |-> <<>>, tool_name |-> "", tool_call_id |-> <<>>, id |-> <<>>]

\* line 54: the prompt of a chat without messages
DefaultSystemMessage == [NoMessage EXCEPT !.type = "system", !.content = "default"]

\* lines 77-84, 88, 90: SystemMessage(content=enhanced_system)
SystemMessage(document_count, context) ==
    [NoMessage EXCEPT !.type = "system", !.content = "enhanced",
                      !.document_count = document_count, !.context = context]

HumanMessage(content) == [NoMessage EXCEPT !.type = "human", !.content = content]

\* a response of the model
AIMessage(id, tool_calls) ==
    [NoMessage EXCEPT !.type = "ai", !.id = id, !.tool_calls = tool_calls]

\* lines 106-110
ToolMessage(content, tool_name, tool_call_id) ==
    [NoMessage EXCEPT !.type = "tool", !.content = content,
                      !.tool_name = tool_name, !.tool_call_id = tool_call_id]

\* the tool calls of a response that names these tools: a call is known by
\* its name and its id
ToolCalls(names, number, invocation) ==
    [n \in 1 .. Len(names) |-> [name |-> names[n], id |-> <<number, invocation, n>>]]

\* the registered tools
TOOLS ==
    {"get_time", "echo", "load_documents", "scrape_website", "search_knowledge_base",
     "get_knowledge_base_stats", "clear_knowledge_base"}

\* what the user types
UserTexts == {"", "east"}

\* the tools the model names in its first response of a turn, in the order
\* of its tool calls
ToolCallRequests ==
    { <<>>,
      <<"clear_knowledge_base">>,
      <<"load_documents", "no_such_tool", "get_time">> }

\* the tools the model names in its response to the tool results
FinalRequests == { <<>>, <<"clear_knowledge_base">> }

\* number counts the turns begun; pc is "tools" while the tool calls of the
\* first response are worked on; incoming is the message list the node was
\* entered with; document_count and relevant_docs are what the node got from
\* the manager (0 and [] when it did not ask), rag_error tells whether the
\* manager raised; sent holds the message list of every model invocation
\* and responses what the model returned; pending are the tool calls of the
\* first response not yet looked at, executed the tool calls run
NoTurn ==
    [number |-> 0, pc |-> "idle", incoming |-> <<>>, document_count |-> 0,
     relevant_docs |-> <<>>, rag_error |-> FALSE, sent |-> <<>>,
     responses |-> <<>>, pending |-> <<>>, executed |-> <<>>]

(***************************************************************************)
(* Initial state: SimpleRAGManager.__init__; cli.py line 122 for the chat  *)
(***************************************************************************)
Init ==
    /\ documents = <<>>
    /\ document_embeddings = <<>>
    /\ rawdata_folder = {}
    /\ last = NoCall
    /\ rag_manager = 0
    /\ ingesting = <<>>
    /\ searching = <<>>
    /\ messages = <<>>
    /\ turn = NoTurn

(***************************************************************************)
(* Operations                                                              *)
(***************************************************************************)
\* RAGManager(): raises ValueError when OPENAI_API_KEY is not set (the
\* constructor reads the .env file anew on every attempt)
ConstructOutcomes == {"ok", "raise"}

\* get_rag_manager as it would be if it constructed a manager on every call
get_rag_manager_constructing ==
    \E outcome \in ConstructOutcomes :
        IF outcome = "ok"
        THEN /\ rag_manager' = rag_manager + 1
             /\ documents' = <<>>
             /\ document_embeddings' = <<>>
             /\ last' = [NoCall EXCEPT !.op = "get", !.success = TRUE]
             /\ UNCHANGED <<rawdata_folder, ingesting, searching>>
             /\ UNCHANGED chat
        ELSE /\ last' = [NoCall EXCEPT !.op = "get", !.signal = "ValueError"]
             /\ UNCHANGED <<documents, document_embeddings, rawdata_folder,
                            rag_manager, ingesting, searching>>
             /\ UNCHANGED chat

\* get_rag_manager(): construct the RAGManager (whose SimpleRAGManager starts
\* with empty lists) if the global is None, return the global
get_rag_manager ==
    \E outcome \in ConstructOutcomes :
        IF rag_manager /= 0
        THEN /\ last' = [NoCall EXCEPT !.op = "get", !.success = TRUE,
                                       !.count = get_document_count]
             /\ UNCHANGED <<documents, document_embeddings, rawdata_folder,
                            rag_manager, ingesting, searching>>
             /\ UNCHANGED chat
        ELSE IF outcome = "ok"
        THEN /\ rag_manager' = 1
             /\ documents' = <<>>
             /\ document_embeddings' = <<>>
             /\ last' = [NoCall EXCEPT !.op = "get", !.success = TRUE]
             /\ UNCHANGED <<rawdata_folder, ingesting, searching>>
             /\ UNCHANGED chat
        ELSE /\ last' = [NoCall EXCEPT !.op = "get", !.signal = "ValueError"]
             /\ UNCHANGED <<documents, document_embeddings, rawdata_folder,
                            rag_manager, ingesting, searching>>
             /\ UNCHANGED chat

\* the search in progress, if any, once a count was made meanwhile
Overlapped(calls) == [i \in 1 .. Len(calls) |-> [calls[i] EXCEPT !.overlapped = TRUE]]

\* no call is in progress on another thread
NoCallInProgress == ingesting = <<>> /\ searching = <<>>

\* an ingestion entry point handing docs to process_and_store_documents of
\* the manager it got from get_rag_manager
Ingest(entry, op, docs, outcome) ==
    \E r \in {process_and_store_documents(docs, outcome)} :
        /\ rag_manager /= 0
        /\ NoCallInProgress
        /\ outcome = "short" => split_documents(docs) /= <<>>
        /\ UNCHANGED <<rag_manager, ingesting, searching>>
        /\ documents' = r.documents
        /\ document_embeddings' = r.document_embeddings
        /\ last' = [NoCall EXCEPT !.op = op, !.entry = entry, !.docs = docs,
                                  !.embed = outcome, !.success = r.success,
                                  !.signal = r.signal,
                                  !.count = Len(r.documents),
                                  !.prev_ingested = (last.op \in IngestOps /\ last.success),
                                  !.prev_count = Len(documents)]

\* the user puts a file into the rawdata folder
PlaceFile ==
    \E f \in TextFiles \ rawdata_folder :
        /\ Cardinality(rawdata_folder) < MaxFiles
        /\ rawdata_folder' = rawdata_folder \cup {f}
        /\ UNCHANGED <<documents, document_embeddings, last, rag_manager,
                       ingesting, searching>>
        /\ UNCHANGED chat

\* load_documents tool (the CLI setup and the dashboard's "Process and Store
\* Documents" do the same): load_documents_from_folder, then
\* process_and_store_documents if there is any document
LoadDocuments ==
    \E outcome \in EmbedOutcomes :
        /\ rawdata_folder /= {}
        /\ \E docs \in Listings(rawdata_folder) : Ingest("tool", "load", docs, outcome)
        /\ UNCHANGED rawdata_folder
        /\ UNCHANGED chat

\* dashboard "Upload and Process Documents": save the file into the
\* rawdata folder, load the whole folder, process it
DashboardUpload ==
    \E f \in TextFiles, outcome \in EmbedOutcomes :
        /\ Cardinality(rawdata_folder \cup {f}) <= MaxFiles
        /\ rawdata_folder' = rawdata_folder \cup {f}
        /\ \E docs \in Listings(rawdata_folder') : Ingest("dashboard", "upload", docs, outcome)
        /\ UNCHANGED chat

\* scrape_website tool, dashboard "Scrape Website": the scraped
\* page is the only document handed over
ScrapeWebsite ==
    \E entry \in ScrapeEntries, page \in WebPages, outcome \in EmbedOutcomes :
        /\ Ingest(entry, "scrape", <<page>>, outcome)
        /\ UNCHANGED rawdata_folder
        /\ UNCHANGED chat

\* search_documents(query, k)
Search ==
    \E query \in Queries, k \in Ks, outcome \in QueryOutcomes :
        \E r \in {search_documents(query, k, outcome)} :
            /\ rag_manager /= 0
            /\ last' = [NoCall EXCEPT !.op = "search", !.query = query, !.k = k,
                                      !.embed = outcome, !.results = r.results,
                                      !.top_indices = r.top_indices,
                                      !.signal = r.signal,
                                      !.count = get_document_count]
            /\ UNCHANGED <<documents, document_embeddings, rawdata_folder,
                           rag_manager, ingesting, searching>>
            /\ UNCHANGED chat

\* get_document_count()
Count ==
    /\ rag_manager /= 0
    /\ last' = [NoCall EXCEPT !.op = "count", !.count = get_document_count]
    /\ searching' = Overlapped(searching)
    /\ UNCHANGED <<documents, document_embeddings, rawdata_folder,
                   rag_manager, ingesting>>
    /\ UNCHANGED chat

\* clear_documents as it would be if it emptied the chunks only
clear_documents_keeping_embeddings ==
    /\ rag_manager /= 0
    /\ NoCallInProgress
    /\ documents' = <<>>
    /\ document_embeddings' = document_embeddings
    /\ \E entry \in ClearEntries :
          last' = [NoCall EXCEPT !.op = "clear", !.entry = entry,
                                 !.prev_count = Len(documents)]
    /\ UNCHANGED <<rawdata_folder, rag_manager, ingesting, searching>>
    /\ UNCHANGED chat

\* clear_documents() (RAGManager.clear_vectorstore delegates to it)
clear_documents ==
    /\ rag_manager /= 0
    /\ NoCallInProgress
    /\ documents' = <<>>
    /\ document_embeddings' = <<>>
    /\ \E entry \in ClearEntries :
          last' = [NoCall EXCEPT !.op = "clear", !.entry = entry,
                                 !.prev_count = Len(documents)]
    /\ UNCHANGED <<rawdata_folder, rag_manager, ingesting, searching>>
    /\ UNCHANGED chat

\* the basic dashboard's "Clear Documents": rag_manager.clear_documents() on
\* the RAGManager, which has no attribute of that name (its method is
\* clear_vectorstore): AttributeError is raised before anything is cleared
BasicDashboardClear ==
    /\ rag_manager /= 0
    /\ last' = [NoCall EXCEPT !.op = "clear_button", !.entry = "basic_dashboard",
                              !.signal = "AttributeError",
                              !.count = get_document_count,
                              !.prev_count = Len(documents)]
    /\ UNCHANGED <<documents, document_embeddings, rawdata_folder, rag_manager,
                   ingesting, searching>>
    /\ UNCHANGED chat

Next ==
    \/ get_rag_manager
    \/ PlaceFile
    \/ LoadDocuments
    \/ DashboardUpload
    \/ ScrapeWebsite
    \/ Search
    \/ Count
    \/ clear_documents
    \/ BasicDashboardClear

Spec == Init /\ [][Next]_vars

(***************************************************************************)
(* Chunking of texts with separators: the rawdata folder holds one text    *)
(* file, alone or beside a short one, and is loaded                        *)
(***************************************************************************)
\* the user fills the empty rawdata folder
PlaceText ==
    \E words \in Texts \cup {EmptyText}, newline \in BOOLEAN,
       others \in SUBSET {NoteDocument} :
        /\ rawdata_folder = {}
        /\ rawdata_folder' =
              {IF newline THEN TextDocumentWithNewline(words) ELSE TextDocument(words)}
              \cup others
        /\ UNCHANGED <<documents, document_embeddings, last, rag_manager,
                       ingesting, searching>>
        /\ UNCHANGED chat

NextSplit ==
    \/ get_rag_manager
    \/ PlaceText
    \/ LoadDocuments

SpecSplit == Init /\ [][NextSplit]_vars

(***************************************************************************)
(* Calls that overlap: the dashboard sessions of one process run on        *)
(* threads of their own and share the manager of get_rag_manager; the      *)
(* manager holds no lock.  A call gives way to the other threads while it  *)
(* waits for the embedding service.                                        *)
(***************************************************************************)
\* load_documents up to line 110 of process_and_store_documents: the chunks
\* are assigned to self.documents, embed_documents is being awaited
BeginLoadDocuments ==
    /\ rag_manager /= 0
    /\ NoCallInProgress
    /\ rawdata_folder /= {}
    /\ \E docs \in Listings(rawdata_folder) :
          /\ documents' = split_documents(docs)
          /\ ingesting' = << [docs |-> docs,
                              prev_ingested |-> (last.op \in IngestOps /\ last.success),
                              prev_count |-> Len(documents)] >>
    /\ UNCHANGED <<document_embeddings, rawdata_folder, last, rag_manager, searching>>
    /\ UNCHANGED chat

\* lines 113-125: embed_documents answers for the texts of the local chunks
\* and its answer is assigned, or it raises and the call returns False
FinishProcess ==
    \E outcome \in EmbedOutcomes :
        /\ ingesting /= <<>>
        /\ LET call == ingesting[1]
               chunks == split_documents(call.docs)
           IN  /\ outcome = "short" => chunks /= <<>>
               /\ document_embeddings' =
                      IF outcome = "raise" THEN document_embeddings
                      ELSE embed_documents(PageContents(chunks), outcome)
               /\ last' = [NoCall EXCEPT !.op = "load", !.entry = "tool",
                                         !.docs = call.docs, !.embed = outcome,
                                         !.success = (outcome /= "raise"),
                                         !.count = get_document_count,
                                         !.prev_ingested = call.prev_ingested,
                                         !.prev_count = call.prev_count]
        /\ ingesting' = <<>>
        /\ UNCHANGED <<documents, rawdata_folder, rag_manager, searching>>
        /\ UNCHANGED chat

\* search_documents up to line 145, on a store that passes the test of line
\* 129 and with embed_query answering: the stored embeddings are scored and
\* top_indices is built
BeginSearch ==
    \E query \in Queries, k \in Ks :
        /\ rag_manager /= 0
        /\ searching = <<>>
        /\ documents /= <<>>
        /\ document_embeddings /= <<>>
        /\ searching' = << [query |-> query, k |-> k,
                            top_indices |-> TopIndices(query, k),
                            overlapped |-> FALSE] >>
        /\ UNCHANGED <<documents, document_embeddings, rawdata_folder, last,
                       rag_manager, ingesting>>
        /\ UNCHANGED chat

\* FinishSearch as it would be if it kept the chunks it returns as the
\* stored chunks
FinishSearch_storing_results ==
    /\ searching /= <<>>
    /\ LET call == searching[1]
           r == Caught(FetchResults(call.top_indices))
       IN  /\ last' = [NoCall EXCEPT !.op = "search", !.query = call.query,
                                     !.k = call.k, !.embed = "ok",
                                     !.results = r.results,
                                     !.top_indices = r.top_indices,
                                     !.signal = r.signal,
                                     !.count = get_document_count,
                                     !.overlapped = call.overlapped]
           /\ documents' = r.results
    /\ searching' = <<>>
    /\ UNCHANGED <<document_embeddings, rawdata_folder, rag_manager, ingesting>>
    /\ UNCHANGED chat

\* lines 147-149 (and the except clause): the chunks at top_indices are read
\* from self.documents and returned
FinishSearch ==
    /\ searching /= <<>>
    /\ LET call == searching[1]
           r == Caught(FetchResults(call.top_indices))
       IN  last' = [NoCall EXCEPT !.op = "search", !.query = call.query,
                                 !.k = call.k, !.embed = "ok",
                                 !.results = r.results,
                                 !.top_indices = r.top_indices,
                                 !.signal = r.signal,
                                 !.count = get_document_count,
                                 !.overlapped = call.overlapped]
    /\ searching' = <<>>
    /\ UNCHANGED <<documents, document_embeddings, rawdata_folder, rag_manager,
                   ingesting>>
    /\ UNCHANGED chat

\* an ingestion in progress while other threads search, count and clear
NextOverlap ==
    \/ get_rag_manager
    \/ PlaceFile
    \/ BeginLoadDocuments
    \/ FinishProcess
    \/ Search
    \/ Count
    \/ clear_documents

SpecOverlap == Init /\ [][NextOverlap]_vars

\* a search in progress while another thread counts; ingestions and clears
\* happen between the searches
NextReads ==
    \/ get_rag_manager
    \/ PlaceFile
    \/ LoadDocuments
    \/ clear_documents
    \/ BeginSearch
    \/ FinishSearch
    \/ Count

SpecReads == Init /\ [][NextReads]_vars

(***************************************************************************)
(* The command-line chat: setup_rag, then one agent turn for every line    *)
(* the user types.  The graph has the one node agent_node, its state the   *)
(* one key messages.                                                       *)
(***************************************************************************)
\* lines 52-54
NodeMessages(msgs) == IF msgs = <<>> THEN << DefaultSystemMessage >> ELSE msgs

\* Enhanced as it would be if the context was built whatever the search
\* returned
Enhanced_without_results_test(msgs, document_count, relevant_docs) ==
    IF document_count > 0
    THEN << SystemMessage(document_count, agent_context(relevant_docs)) >>
         \o (IF msgs /= <<>> /\ msgs[1].type = "system" THEN Tail(msgs) ELSE msgs)
    ELSE msgs

\* Enhanced as it would be if the enhanced prompt was always inserted
Enhanced_inserting(msgs, document_count, relevant_docs) ==
    IF document_count > 0 /\ relevant_docs /= <<>>
    THEN << SystemMessage(document_count, agent_context(relevant_docs)) >> \o msgs
    ELSE msgs

\* lines 65-90: the message list after the enhancement, relevant_docs being
\* what the search returned
Enhanced(msgs, document_count, relevant_docs) ==
    IF document_count > 0 /\ relevant_docs /= <<>>
    THEN LET enhanced_system == SystemMessage(document_count, agent_context(relevant_docs))
         IN  IF msgs /= <<>> /\ msgs[1].type = "system"
             THEN [msgs EXCEPT ![1] = enhanced_system]
             ELSE << enhanced_system >> \o msgs
    ELSE msgs

\* cli.py lines 166-167 and agent_node up to the first response of the
\* model: the HumanMessage is appended and the graph invoked; the node asks
\* the manager for context when the text is not empty (get_rag_manager may
\* have to construct the manager, the except clause of line 91 catches what
\* it raises), invokes the model, and is done when the response has no tool
\* call
BeginTurn ==
    \E text \in UserTexts, construct \in ConstructOutcomes, embed \in QueryOutcomes,
       request \in ToolCallRequests :
        LET incoming == Append(messages, HumanMessage(text))
            asks == text /= ""
            constructs == asks /\ rag_manager = 0 /\ construct = "ok"
            rag_error == asks /\ rag_manager = 0 /\ construct = "raise"
            document_count == IF asks /\ rag_manager /= 0 THEN get_document_count ELSE 0
            relevant_docs == IF document_count > 0
                             THEN search_documents(text, agent_k, embed).results
                             ELSE <<>>
            response == AIMessage(<<turn.number + 1, 1>>,
                                  ToolCalls(request, turn.number + 1, 1))
        IN  \E sent \in {Enhanced(NodeMessages(incoming), document_count, relevant_docs)} :
                /\ turn.pc = "idle"
                /\ turn.number < MaxTurns
                /\ NoCallInProgress
                /\ IF constructs
                   THEN /\ rag_manager' = 1
                        /\ documents' = <<>>
                        /\ document_embeddings' = <<>>
                   ELSE UNCHANGED <<rag_manager, documents, document_embeddings>>
                /\ messages' = IF request = <<>> THEN Append(sent, response) ELSE sent
                /\ turn' = [number |-> turn.number + 1,
                            pc |-> IF request = <<>> THEN "idle" ELSE "tools",
                            incoming |-> incoming,
                            document_count |-> document_count,
                            relevant_docs |-> relevant_docs,
                            rag_error |-> rag_error,
                            sent |-> << sent >>,
                            responses |-> << response >>,
                            pending |-> response.tool_calls,
                            executed |-> <<>>]
                /\ UNCHANGED <<rawdata_folder, last, ingesting, searching>>

\* the tool call the loop of line 99 is at
AtToolCall == turn.pc = "tools" /\ turn.pending /= <<>>

\* lines 105-110: the tool has returned content
ToolReturns(content) ==
    /\ messages' = Append(messages, ToolMessage(content, turn.pending[1].name,
                                                turn.pending[1].id))
    /\ turn' = [turn EXCEPT !.pending = Tail(@), !.executed = Append(@, turn.pending[1])]

\* lines 102-104: a tool that is not registered is passed over
SkipUnknownTool ==
    /\ AtToolCall
    /\ turn.pending[1].name \notin TOOLS
    /\ turn' = [turn EXCEPT !.pending = Tail(@)]
    /\ UNCHANGED <<documents, document_embeddings, rawdata_folder, last, rag_manager,
                   ingesting, searching, messages>>

\* get_time
ToolGetTime ==
    /\ AtToolCall
    /\ turn.pending[1].name = "get_time"
    /\ ToolReturns("time")
    /\ UNCHANGED <<documents, document_embeddings, rawdata_folder, last, rag_manager,
                   ingesting, searching>>

\* a tool calls get_rag_manager() while there is no manager, and the manager
\* is constructed: the tool goes on as below
ToolConstructsManager ==
    /\ AtToolCall
    /\ turn.pending[1].name \in {"load_documents", "clear_knowledge_base"}
    /\ rag_manager = 0
    /\ rag_manager' = 1
    /\ documents' = <<>>
    /\ document_embeddings' = <<>>
    /\ UNCHANGED <<rawdata_folder, last, ingesting, searching, messages, turn>>

\* a tool whose get_rag_manager() raises returns the error as its result
ToolWithoutManager ==
    /\ AtToolCall
    /\ turn.pending[1].name \in {"load_documents", "clear_knowledge_base"}
    /\ rag_manager = 0
    /\ ToolReturns("Error")
    /\ UNCHANGED <<documents, document_embeddings, rawdata_folder, last, rag_manager,
                   ingesting, searching>>

\* load_documents
ToolLoadDocuments ==
    /\ AtToolCall
    /\ turn.pending[1].name = "load_documents"
    /\ rag_manager /= 0
    /\ IF rawdata_folder = {}
       THEN /\ ToolReturns("No documents found")
            /\ UNCHANGED <<documents, document_embeddings, last, rag_manager,
                           ingesting, searching>>
       ELSE /\ \E outcome \in EmbedOutcomes, docs \in Listings(rawdata_folder) :
                  Ingest("tool", "load", docs, outcome)
            /\ ToolReturns(IF last'.success THEN "Successfully loaded"
                                            ELSE "Failed to process")
    /\ UNCHANGED rawdata_folder

\* clear_knowledge_base
ToolClearKnowledgeBase ==
    /\ AtToolCall
    /\ turn.pending[1].name = "clear_knowledge_base"
    /\ rag_manager /= 0
    /\ documents' = <<>>
    /\ document_embeddings' = <<>>
    /\ last' = [NoCall EXCEPT !.op = "clear", !.entry = "tool",
                              !.prev_count = Len(documents)]
    /\ ToolReturns("Knowledge base has been cleared.")
    /\ UNCHANGED <<rawdata_folder, rag_manager, ingesting, searching>>

\* FinishTurn as it would be if the tool calls of the second response were
\* worked on like those of the first
FinishTurn_running_final_calls ==
    \E request \in FinalRequests :
        LET final == AIMessage(<<turn.number, Len(turn.responses) + 1>>,
                               ToolCalls(request, turn.number, Len(turn.responses) + 1))
        IN  /\ turn.pc = "tools"
            /\ turn.pending = <<>>
            /\ Len(turn.responses) <= MaxTurns
            /\ messages' = Append(messages, final)
            /\ turn' = [turn EXCEPT !.pc = IF request = <<>> THEN "idle" ELSE "tools",
                                    !.pending = final.tool_calls,
                                    !.sent = Append(@, Append(messages, turn.responses[1])),
                                    !.responses = Append(@, final)]
            /\ UNCHANGED <<documents, document_embeddings, rawdata_folder, last,
                           rag_manager, ingesting, searching>>

\* lines 111-114: the model is asked again, with the messages and the first
\* response after them; what it returns is appended and the turn is over
FinishTurn ==
    \E request \in FinalRequests :
        LET final == AIMessage(<<turn.number, 2>>, ToolCalls(request, turn.number, 2))
        IN  /\ turn.pc = "tools"
            /\ turn.pending = <<>>
            /\ messages' = Append(messages, final)
            /\ turn' = [turn EXCEPT !.pc = "idle",
                                    !.sent = Append(@, Append(messages, turn.responses[1])),
                                    !.responses = Append(@, final)]
            /\ UNCHANGED <<documents, document_embeddings, rawdata_folder, last,
                           rag_manager, ingesting, searching>>

\* the user puts one file into the empty rawdata folder
PlaceOneFile ==
    /\ rawdata_folder = {}
    /\ PlaceFile

\* setup_rag, before the chat: get_rag_manager()
SetupManager ==
    /\ turn.number = 0
    /\ get_rag_manager

\* setup_rag, before the chat: the documents of the rawdata folder are loaded
SetupRag ==
    /\ turn.number = 0
    /\ LoadDocuments

NextAgent ==
    \/ SetupManager
    \/ PlaceOneFile
    \/ SetupRag
    \/ BeginTurn
    \/ SkipUnknownTool
    \/ ToolGetTime
    \/ ToolConstructsManager
    \/ ToolWithoutManager
    \/ ToolLoadDocuments
    \/ ToolClearKnowledgeBase
    \/ FinishTurn

SpecAgent == Init /\ [][NextAgent]_vars

TypeOK ==
    /\ documents \in Seq([page_content : [of : STRING, lo : Nat, hi : Nat],
                          metadata : [source : STRING, type : STRING]])
    /\ last.op \in {"none", "get", "load", "upload", "scrape", "search", "count", "clear",
                  "clear_button"}
    /\ rag_manager \in {0, 1}
    /\ turn.number \in 0 .. MaxTurns
    /\ turn.pc \in {"idle", "tools"}
    /\ \A i \in 1 .. Len(messages) : messages[i].type \in {"system", "human", "ai", "tool"}

(***************************************************************************)
(* Properties                                                              *)
(***************************************************************************)
IsIngest(call) == call.op \in IngestOps

\* C1: in every reachable state of the store the number of stored chunks
\* equals the number of stored embeddings.
C1_ParallelSequences == Len(documents) = Len(document_embeddings)

\* C2: ingestion is all-or-nothing: when embed_documents raises, the call
\* reports failure and the stored chunks and the stored embeddings are what
\* they were before the call.
C2_AllOrNothing ==
    [][ (IsIngest(last') /\ last'.embed = "raise")
            => /\ ~last'.success
               /\ documents' = documents
               /\ document_embeddings' = document_embeddings ]_vars

C4_IngestionAdds ==
    [][ (last'.op \in {"scrape", "upload"} /\ last'.success)
            => \A i \in 1 .. Len(documents) :
                   \E j \in 1 .. Len(documents') : documents'[j] = documents[i] ]_vars

IsSearch(call) == call.op = "search"

\* a search whose query was embedded (embed_query did not raise)
IsRankedSearch(call) == IsSearch(call) /\ call.embed = "ok"

\* the cosine score of the stored chunk at position i against a query
ChunkScore(query, i) ==
    cosine_similarity(EmbedQueryText(query), EmbedText(documents[i].page_content))

\* the positions a search returned
Returned(call) == { call.top_indices[a] : a \in 1 .. Len(call.top_indices) }

\* C5: search against an empty store signals RetrievalUnavailable: its
\* outcome differs from that of a successful search that returns an empty
\* list (nothing raised, [] returned).
C5_EmptyStoreSignalled ==
    (IsSearch(last) /\ get_document_count = 0)
        => <<last.signal, last.results>> /= <<"none", <<>>>>

\* C6: top-k bound: in every reachable store state and for every k >= 0 a
\* search returns exactly min(k, count()) chunks.
C6_TopKBound ==
    (IsRankedSearch(last) /\ last.k >= 0)
        => Len(last.results) = Min(last.k, get_document_count)

\* C7: k is clamped to [0, count()]: a search with negative k returns no
\* chunk, a search with k greater than count() returns all the stored chunks,
\* and no search returns more than count() chunks.
C7_KClamped ==
    IsRankedSearch(last)
        => /\ last.k < 0 => last.results = <<>>
           /\ last.k > get_document_count
                => /\ Len(last.results) = get_document_count
                   /\ Returned(last) = 1 .. get_document_count
           /\ Len(last.results) <= get_document_count

\* C8: results are ordered highest score first: of two returned chunks the
\* earlier one's score is >= the later one's, and no chunk left out scores
\* strictly higher than a returned one.
C8_HighestFirst ==
    IsRankedSearch(last)
        => /\ \A a, b \in 1 .. Len(last.top_indices) :
                a < b => ScoreGE(ChunkScore(last.query, last.top_indices[a]),
                                 ChunkScore(last.query, last.top_indices[b]))
           /\ \A i \in (1 .. Len(documents)) \ Returned(last) :
                \A j \in Returned(last) :
                    ~ScoreLT(ChunkScore(last.query, j), ChunkScore(last.query, i))

\* C9: tie-break: of two stored chunks with exactly equal scores, the one
\* inserted earlier comes first in the result, and is the one kept when k
\* cuts between them.
C9_TieKeepsInsertionOrder ==
    IsRankedSearch(last)
        => \A i, j \in 1 .. Len(documents) :
              (i < j /\ ScoreEQ(ChunkScore(last.query, i), ChunkScore(last.query, j))
                     /\ j \in Returned(last))
                => \E a, b \in 1 .. Len(last.top_indices) :
                       a < b /\ last.top_indices[a] = i /\ last.top_indices[b] = j

\* C10: when embed_documents returns a number of vectors different from the
\* number of chunk texts, ingestion fails and the store is left unchanged.
C10_MismatchRejected ==
    [][ (IsIngest(last') /\ last'.embed = "short")
            => /\ ~last'.success
               /\ documents' = documents
               /\ document_embeddings' = document_embeddings ]_vars

\* C11: clear() resets both sequences to empty from any store state: after a
\* clear the stored chunks and the stored embeddings are empty, count() is 0
\* and every search returns nothing; a clear of a cleared store (clearing
\* twice) ends in the same store as clearing once.
C11_ClearResets ==
    last.op = "clear"
        => /\ documents = <<>>
           /\ document_embeddings = <<>>
           /\ get_document_count = 0
           /\ \A query \in Queries, k \in Ks, outcome \in QueryOutcomes :
                  search_documents(query, k, outcome).results = <<>>

\* a clear of a store that held chunks
C11_Witness == last.op = "clear" /\ last.prev_count > 0

\* C12: when embed_query raises during a search of a non-empty store, the
\* failure is surfaced to the caller as an outcome that differs from the one
\* of a search that matches no chunk (nothing raised, [] returned), and the
\* stored chunks and embeddings are left as they were.
C12_EmbeddingFailureSurfaced ==
    [][ (IsSearch(last') /\ last'.embed = "raise"
            /\ documents /= <<>> /\ document_embeddings /= <<>>)
            => /\ <<last'.signal, last'.results>> /= <<"none", <<>>>>
               /\ documents' = documents
               /\ document_embeddings' = document_embeddings ]_vars

\* the chunks of the documents that can be ingested
Chunks == UNION { {c[i] : i \in 1 .. Len(c)} : c \in {ChunksOf(d) : d \in TextFiles \cup WebPages} }

\* C13: no failure inside ingestion or search escapes as an exception: every
\* call returns (nothing is raised to the caller), an ingestion returns a
\* boolean and a search returns a list of chunks, in every reachable state.
C13_NoExceptionEscapes ==
    /\ (IsIngest(last) \/ IsSearch(last)) => last.signal = "none"
    /\ IsIngest(last) => last.success \in BOOLEAN
    /\ IsSearch(last) => last.results \in Seq(Chunks)

\* a search whose try block raised IndexError (more embeddings than chunks
\* are stored) and that returned []
C13_Witness ==
    /\ IsRankedSearch(last)
    /\ documents /= <<>>
    /\ search_documents_try(last.query, last.k, last.embed).signal = "IndexError"
    /\ last.results = <<>>

ZeroNorm(vec) == Dot(vec, vec) = 0

\* the score search_documents computes for the embedding stored at position i
StoredScore(query, i) == cosine_similarity(EmbedQueryText(query), document_embeddings[i])

ZeroScore == [num |-> 0, den2 |-> 1]

\* position i comes before position j in the result of a search
RankedBefore(call, i, j) ==
    \E a, b \in 1 .. Len(call.top_indices) :
        a < b /\ call.top_indices[a] = i /\ call.top_indices[b] = j

\* C14: zero-norm handling: when the query embedding or a stored embedding
\* has zero norm, the score of that chunk is 0.0 (not NaN), so that the chunk
\* ranks below every chunk of positive score and above every chunk of
\* negative score.
C14_ZeroNormScoresZero ==
    (IsRankedSearch(last) /\ documents /= <<>>)
        => \A i \in 1 .. Len(document_embeddings) :
              (ZeroNorm(EmbedQueryText(last.query)) \/ ZeroNorm(document_embeddings[i]))
                => /\ ScoreEQ(StoredScore(last.query, i), ZeroScore)
                   /\ \A j \in 1 .. Len(document_embeddings) :
                         /\ (ScoreLT(ZeroScore, StoredScore(last.query, j))
                                /\ i \in Returned(last))
                               => RankedBefore(last, j, i)
                         /\ (ScoreLT(StoredScore(last.query, j), ZeroScore)
                                /\ j \in Returned(last))
                               => RankedBefore(last, i, j)

\* a context block built from chunks under a limit of max_chars characters:
\* one paragraph per chunk in the order of the chunks, the i-th labelled i
\* and with its chunk's source, holding the first max_chars characters of the
\* content, the truncation marker present exactly when the content is longer
WellFormedContext(block, chunks, max_chars) ==
    /\ Len(block) = Len(chunks)
    /\ \A i \in 1 .. Len(chunks) :
          /\ block[i].index = i
          /\ block[i].source = chunks[i].metadata.source
          /\ block[i].content = Truncate(chunks[i].page_content, max_chars)
          /\ ContentLength(block[i].content) <= max_chars
          /\ block[i].marker = (ContentLength(chunks[i].page_content) > max_chars)

\* C15: the context block built from the chunks a search returned (by the
\* agent node, by the search_knowledge_base tool) has one paragraph per chunk
\* in ranking order, the i-th labelled with i and the chunk's source, at most
\* max_chars_per_chunk characters of content, and a truncation marker exactly
\* when the content was longer than the limit.
C15_ContextBlock ==
    IsSearch(last)
        => /\ WellFormedContext(agent_context(last.results), last.results, agent_max_chars)
           /\ WellFormedContext(search_knowledge_base_response(last.results),
                                last.results, tool_max_chars)

\* C16: searches are serialized with respect to ingestions: a search made
\* while an ingestion is in progress never observes the chunks of one batch
\* with the embeddings of another, that is, every chunk it returns was
\* ranked by the embedding of its own text.
C16_SearchSerialized ==
    [][ (IsRankedSearch(last') /\ last' /= last /\ ingesting /= <<>>)
            => \A a \in 1 .. Len(last'.top_indices) :
                   LET idx == last'.top_indices[a]
                   IN  document_embeddings[idx] = EmbedText(documents[idx].page_content)
      ]_vars

C19_SingleManager ==
    [][ /\ rag_manager' \in {0, 1}
        /\ rag_manager' /= rag_manager => last'.op = "get"
        /\ rag_manager /= 0
             => /\ rag_manager' = rag_manager
                /\ last'.op = "get"
                      => /\ last'.success
                         /\ last'.count = get_document_count
                         /\ documents' = documents
                         /\ document_embeddings' = document_embeddings ]_vars

\* a later call of get_rag_manager, made while chunks are stored
C19_Witness ==
    /\ last.op = "get"
    /\ last.success
    /\ rag_manager = 1
    /\ last.count > 0
    /\ get_document_count = last.count

\* the document of the last batch that the stored chunk at position i is of
DocumentOf(i) ==
    CHOOSE doc \in {last.docs[n] : n \in 1 .. Len(last.docs)} :
        doc.source = documents[i].metadata.source

\* the stored chunks at positions i and i+1 come from the same document
SameDocument(i) == documents[i].metadata.source = documents[i + 1].metadata.source

LastOfDocument(i) == i = Len(documents) \/ ~SameDocument(i)

ChunksOfSource(source) ==
    SelectSeq(documents, LAMBDA chunk : chunk.metadata.source = source)

PositionIn(docs, source) == CHOOSE n \in 1 .. Len(docs) : docs[n].source = source

\* C23: the stored chunks follow the order of the documents of the batch and
\* then the order of the chunks within each document, every stored chunk
\* carries the metadata (the source in particular) of the document it was cut
\* from, and the i-th stored embedding is the embedding of the i-th stored
\* chunk's text.
C23_StoredOrder ==
    /\ (IsIngest(last) /\ last.docs /= <<>>)
          => /\ \A i \in 1 .. Len(documents) :
                   \E n \in 1 .. Len(last.docs) :
                       /\ documents[i].page_content.of = last.docs[n].source
                       /\ documents[i].metadata = [source |-> last.docs[n].source,
                                                   type |-> last.docs[n].type]
             /\ \A i, j \in 1 .. Len(documents) :
                   i < j
                     => LET earlier == documents[i]
                            later == documents[j]
                        IN  /\ PositionIn(last.docs, earlier.metadata.source)
                                  <= PositionIn(last.docs, later.metadata.source)
                            /\ earlier.metadata.source = later.metadata.source
                                  => earlier.page_content.lo < later.page_content.lo
    /\ \A i \in 1 .. Len(documents) :
          /\ i <= Len(document_embeddings)
          /\ document_embeddings[i] = EmbedText(documents[i].page_content)

\* the call completed last came from a user-facing clear entry point
IsClearEntry(call) == call.op \in {"clear", "clear_button"}

\* C24: every user-facing clear entry point (the clear_knowledge_base tool,
\* the enhanced dashboard's "Clear All Documents", the basic dashboard's
\* "Clear Documents") empties the store of the manager returned by
\* get_rag_manager: after it, count() is 0 and every search returns nothing.
C24_ClearEntryPoints ==
    IsClearEntry(last)
        => /\ last.entry \in ClearEntries \cup {"basic_dashboard"}
           /\ get_document_count = 0
           /\ \A query \in Queries, k \in Ks, outcome \in QueryOutcomes :
                  search_documents(query, k, outcome).results = <<>>

\* C25: in every reachable store state a search returns only chunks that
\* are in the store, no stored position twice, and with k equal to count()
\* it returns every stored chunk exactly once.
C25_SearchReturnsStored ==
    IsRankedSearch(last)
        => /\ Len(last.results) = Len(last.top_indices)
           /\ \A a \in 1 .. Len(last.top_indices) :
                 /\ last.top_indices[a] \in 1 .. Len(documents)
                 /\ last.results[a] = documents[last.top_indices[a]]
           /\ \A a, b \in 1 .. Len(last.top_indices) :
                 a /= b => last.top_indices[a] /= last.top_indices[b]
           /\ last.k = get_document_count
                 => /\ Len(last.results) = get_document_count
                    /\ Returned(last) = 1 .. get_document_count

\* the messages of a list that are no SystemMessage
WithoutSystem(msgs) == SelectSeq(msgs, LAMBDA m : m.type /= "system")

\* C26: the agent node changes the system prompt only when the latest
\* message is a HumanMessage with non-empty content, count() > 0 and the
\* search (k = 3) returns at least one chunk, and then the first message, and
\* nothing else, becomes the prompt built from these chunks; in every other
\* case (empty store, empty search result, an exception raised by the RAG
\* manager) the model is still invoked, with the incoming message list as it
\* is.
C26_ContextOnlyWhenFound ==
    [][ turn'.number /= turn.number
          => LET incoming == turn'.incoming
                 latest == incoming[Len(incoming)]
                 sent == turn'.sent[1]
                 asks == latest.type = "human" /\ latest.content /= ""
                 searches == asks /\ rag_manager /= 0 /\ get_document_count > 0
                 found == searches /\ turn'.relevant_docs /= <<>>
             IN  /\ Len(turn'.sent) >= 1
                 /\ incoming = Append(messages, latest)
                 /\ searches
                      => turn'.relevant_docs
                           \in { search_documents(latest.content, agent_k, outcome).results :
                                   outcome \in QueryOutcomes }
                 /\ ~found => sent = incoming
                 /\ turn'.rag_error => sent = incoming
                 /\ found
                      => /\ sent[1] = SystemMessage(get_document_count,
                                                    agent_context(turn'.relevant_docs))
                         /\ WithoutSystem(sent) = WithoutSystem(incoming)
                         /\ Len(sent) = Len(WithoutSystem(sent)) + 1 ]_vars

\* a turn on a store that holds chunks, with a text that is not empty; the
\* search returned nothing and the model was invoked with the incoming
\* messages, the text after a turn before it
C26_Witness ==
    /\ turn.number > 1
    /\ turn.document_count > 0
    /\ turn.relevant_docs = <<>>
    /\ turn.incoming[Len(turn.incoming)].content /= ""
    /\ turn.sent[1] = turn.incoming

\* C27: after the knowledge base has been cleared (count() = 0), the agent
\* turns that follow in the same chat send no system prompt with context
\* retrieved from the cleared chunks to the model.
C27_NoStaleContext ==
    [][ (turn'.number /= turn.number /\ last.op = "clear" /\ get_document_count = 0)
          => \A i \in 1 .. Len(turn'.sent[1]) : turn'.sent[1][i].context = <<>> ]_vars

\* the ToolMessage at position j answers a tool call of an AIMessage before it
AnswersCallBefore(msgs, j) ==
    \E i \in 1 .. (j - 1) :
        /\ msgs[i].type = "ai"
        /\ \E c \in 1 .. Len(msgs[i].tool_calls) :
               msgs[i].tool_calls[c].id = msgs[j].tool_call_id

ToolMessagesFollow(msgs) ==
    \A j \in 1 .. Len(msgs) : msgs[j].type = "tool" => AnswersCallBefore(msgs, j)

Contains(msgs, m) == \E i \in 1 .. Len(msgs) : msgs[i] = m

\* C28: when the model requests tool calls, the message list of the
\* follow-up invocation and the history the turn returns both contain the AI
\* message that requested the calls, and in both every ToolMessage comes
\* after the AI message whose tool call it answers.
C28_ToolCallOrder ==
    (turn.pc = "idle" /\ turn.number > 0 /\ turn.responses[1].tool_calls /= <<>>)
        => /\ Contains(turn.sent[2], turn.responses[1])
           /\ Contains(messages, turn.responses[1])
           /\ ToolMessagesFollow(turn.sent[2])
           /\ ToolMessagesFollow(messages)

\* s is the beginning of t
IsPrefix(s, t) == Len(s) <= Len(t) /\ SubSeq(t, 1, Len(s)) = s

\* C29: in a chat that starts without a SystemMessage the history holds at
\* most one SystemMessage, at index 0, whatever the number of turns: the
\* enhancement replaces it instead of adding another, it is never removed,
\* and the other messages are never replaced or removed (the history grows
\* by appends).
C29_SingleSystemMessage ==
    [][ /\ \A i \in 1 .. Len(messages') : messages'[i].type = "system" => i = 1
        /\ (messages /= <<>> /\ messages[1].type = "system")
              => messages'[1].type = "system"
        /\ IsPrefix(WithoutSystem(messages), WithoutSystem(messages')) ]_vars

\* a turn whose enhancement replaced the SystemMessage of a turn before it
\* by another one
C29_Witness ==
    /\ turn.number > 1
    /\ turn.pc = "idle"
    /\ turn.incoming[1].type = "system"
    /\ turn.sent[1][1] /= turn.incoming[1]
    /\ Len(turn.sent[1]) = Len(turn.incoming)
    /\ messages[1] = turn.sent[1][1]

\* the tool calls of a response that name a registered tool
Registered(tool_calls) == SelectSeq(tool_calls, LAMBDA call : call.name \in TOOLS)

NumberOf(type, msgs) == Len(SelectSeq(msgs, LAMBDA m : m.type = type))

\* C30: an agent turn is over after at most two model invocations: the tool
\* calls of the first response that name a registered tool are executed once
\* each, in the order of the request, the calls that name an unknown tool are
\* passed over without error, the tool calls of the second response are not
\* executed, and the turn appends exactly one AI message to the history.
C30_TurnTerminates ==
    /\ Len(turn.sent) <= 2
    /\ Len(turn.responses) = Len(turn.sent)
    /\ turn.pc = "tools"
          => /\ Len(turn.sent) = 1
             /\ turn.executed \o Registered(turn.pending)
                   = Registered(turn.responses[1].tool_calls)
    /\ (turn.pc = "idle" /\ turn.number > 0)
          => LET first == turn.responses[1]
                 before == Len(turn.sent[1])
             IN  /\ Len(turn.sent) = IF first.tool_calls = <<>> THEN 1 ELSE 2
                 /\ turn.executed = Registered(first.tool_calls)
                 /\ Len(messages) = before + Len(turn.executed) + 1
                 /\ \A n \in 1 .. Len(turn.executed) :
                       /\ messages[before + n].type = "tool"
                       /\ messages[before + n].tool_name = turn.executed[n].name
                       /\ messages[before + n].tool_call_id = turn.executed[n].id
                 /\ messages[Len(messages)] = turn.responses[Len(turn.responses)]
                 /\ NumberOf("ai", messages) = NumberOf("ai", turn.incoming) + 1

\* a turn is over whose first response named three tools, one of them
\* unknown, and whose second response requested a tool call
C30_Witness ==
    /\ turn.pc = "idle"
    /\ Len(turn.responses) = 2
    /\ Len(turn.responses[1].tool_calls) = 3
    /\ Len(turn.executed) = 2
    /\ turn.responses[2].tool_calls /= <<>>
    /\ NumberOf("tool", messages) = 2

====
